---- MODULE Spec2Model ----
(***************************************************************************)
(* Model of the two notebooks of pydata-dc-2018:                           *)
(*   - the Bayesian walkthrough (src/unnamed/part_000): the Beta-Binomial  *)
(*     posterior draw cells, the elections / np.mean cells and the         *)
(*     beta(a, b).pdf density used by plot_beta_binomial;                  *)
(*   - the Senate dashboard (src/senate_dashboard.ipynb): the seeded       *)
(*     Poisson seat simulation, map_results and histogram.                 *)
(*                                                                         *)
(* Real numbers in [0,1] are carried as integers in units of 1/Den, so     *)
(* 0.5 is Den/2 = Half and "v > 0.5" is "2*v > Den".                        *)
(*                                                                         *)
(* numpy's process-wide generator is one state variable, rng.  seed(s)     *)
(* overwrites it, every variate drawn advances it, and a variate is a      *)
(* function of the generator state (and of the distribution's parameters). *)
(***************************************************************************)
EXTENDS Integers, Sequences, FiniteSets, TLC

VARIABLES rng, p_d, simulations, demrate, hist_dict_dem, hist_dict_rep, last,
          src, elections, win, arg, dens, vlines

vars == <<rng, p_d, simulations, demrate, hist_dict_dem, hist_dict_rep, last,
          src, elections, win, arg, dens, vlines>>

(* ------------------------------ bounds -------------------------------- *)
\* Number of states of the abstract generator.
RngMod == 8
\* Resolution of the unit interval: values are k/Den, Den = 2*Half.
Half == 2
Den == 2 * Half
\* Largest sample size requested from np.random.beta.
MaxCount == 2
\* Largest number of seat simulations requested from np.random.poisson.
MaxSims == 3
\* Half-width of the modelled support of a Poisson variate around its mean.
Spread == 2
\* Longest sample handed to the elections cell on its own.
MaxLen == 3
\* Largest Beta shape whose density is evaluated.
MaxShape == 3

(* ------------------------- program constants -------------------------- *)
\* np.random.seed(42)
Seed == 42
\* np.random.poisson(50, ...)
PoissonMean == 50
\* np.random.uniform(0, 1, 49): one entry per mapped state race
NumStates == 49
\* 100 * np.random.uniform(...)
Percent == 100
\* histogram: i > 50 is Democratic control, i <= 50 Republican control
ControlSeats == 50

(* ------------------------------ inputs -------------------------------- *)
\* Prior shapes <<alpha, beta>>: the notebook's priors and an invalid one.
Priors == {<<7, 5>>, <<10, 40>>, <<1, 1>>, <<0, 1>>}
\* Observations <<trials, successes>>: the notebook's surveys, an empty
\* survey, and two that break 0 <= successes <= trials.
Observations == {<<40, 30>>, <<100, 55>>, <<0, 0>>, <<10, 15>>, <<-2, -1>>}
Counts == -1 .. MaxCount

(* --------------------------- the generator ---------------------------- *)
\* np.random.seed(s): the generator state becomes a function of s alone.
np_random_seed_missing(g, s) == g
np_random_seed(g, s) == s % RngMod

\* The generator state after n variates were drawn in state g.
StateAfter(g, n) == (g + 5 * n) % RngMod

Min(x, y) == IF x <= y THEN x ELSE y
Max(x, y) == IF x >= y THEN x ELSE y

\* A Beta(a, b) variate drawn in state g: a value of the support [0, 1].
BetaDraw_percent(g, a, b) ==
    Percent * Min(Den, (2 * a * ((g * Den) \div (RngMod - 1))) \div (a + b))
BetaDraw(g, a, b) ==
    Min(Den, (2 * a * ((g * Den) \div (RngMod - 1))) \div (a + b))

BetaVariates(g, a, b, size) ==
    [i \in 1 .. size |-> BetaDraw(StateAfter(g, i - 1), a, b)]

\* np.random.beta(a, b, size): ValueError for a non-positive shape or a
\* negative size; otherwise size variates (none for size = 0).
np_random_beta(g, a, b, size) ==
    IF a <= 0 \/ b <= 0 \/ size < 0
    THEN [exc |-> "ValueError", value |-> <<>>, rng |-> g]
    ELSE [exc |-> "ok", value |-> BetaVariates(g, a, b, size),
          rng |-> StateAfter(g, size)]

\* A Poisson(lam) variate drawn in state g: a natural number.
PoissonDraw(g, lam) == Max(0, lam - Spread + (g % (2 * Spread + 1)))

PoissonVariates(g, lam, size) ==
    [i \in 1 .. size |-> PoissonDraw(StateAfter(g, i - 1), lam)]

\* A uniform variate of [0, 1) drawn in state g.
UniformDraw(g) == (g * Den) \div RngMod

UniformVariates(g, size) ==
    [i \in 1 .. size |-> UniformDraw(StateAfter(g, i - 1))]

(* ------------------------- posterior draw cell ------------------------ *)
\* Beta(alpha + k, beta + (n - k)): the shapes the draw cells pass on.
update_add_trials(prior, obs) == <<prior[1] + obs[2], prior[2] + obs[1]>>
update(prior, obs) == <<prior[1] + obs[2], prior[2] + (obs[1] - obs[2])>>

NoCall == [op |-> "none", prior |-> <<0, 0>>, obs |-> <<0, 0>>, count |-> 0,
           post |-> <<0, 0>>, exc |-> "ok", genFrom |-> "none",
           owner |-> "import"]
NoSrc == [key |-> <<>>, rerun |-> FALSE]

\* np.random.seed(42); p_d = np.random.beta(a + k, b + (n - k), count)
\* A raised exception leaves p_d as it was; the seed call has taken effect.
\* last.genFrom names the call that left the generator in the state this call
\* drew from, last.owner the call that wrote the generator last.
\* src remembers the call p_d came from, and whether that call repeated the
\* call before it after the generator had been left in another state.
PosteriorCell ==
    \E prior \in Priors, obs \in Observations, count \in Counts :
        LET g0 == np_random_seed(rng, Seed)
            sh == update(prior, obs)
            r == np_random_beta(g0, sh[1], sh[2], count)
            key == <<prior, obs, count>>
        IN /\ rng' = r.rng
           /\ p_d' = IF r.exc = "ok" THEN r.value ELSE p_d
           /\ src' = IF r.exc = "ok"
                     THEN [key |-> key,
                           rerun |-> src.key = key /\ rng # g0]
                     ELSE src
           /\ last' = [op |-> "posterior", prior |-> prior, obs |-> obs,
                       count |-> count, post |-> sh, exc |-> r.exc,
                       genFrom |-> "posterior", owner |-> "posterior"]
           /\ UNCHANGED <<simulations, demrate, hist_dict_dem, hist_dict_rep,
                        elections, win, arg, dens, vlines>>

(* ------------------------- dashboard cells ---------------------------- *)
\* np.random.seed(42); simulations = np.random.poisson(50, size)
SimulationsCell ==
    \E size \in 1 .. MaxSims :
        LET g0 == np_random_seed(rng, Seed)
        IN /\ simulations' = PoissonVariates(g0, PoissonMean, size)
           /\ rng' = StateAfter(g0, size)
           /\ last' = [NoCall EXCEPT !.op = "simulations", !.count = size,
                                     !.genFrom = "simulations",
                                     !.owner = "simulations"]
           /\ UNCHANGED <<p_d, src, demrate, hist_dict_dem, hist_dict_rep,
                        elections, win, arg, dens, vlines>>

\* map_results: 'demrate': 100 * np.random.uniform(0, 1, 49), drawn from the
\* process-wide generator in whatever state the earlier cells left it.
map_results ==
    /\ demrate' = [i \in 1 .. NumStates |->
                      Percent * UniformVariates(rng, NumStates)[i]]
    /\ rng' = StateAfter(rng, NumStates)
    /\ last' = [NoCall EXCEPT !.op = "map_results", !.count = NumStates,
                              !.genFrom = last.owner,
                              !.owner = "map_results"]
    /\ UNCHANGED <<p_d, src, simulations, hist_dict_dem, hist_dict_rep,
                   elections, win, arg, dens, vlines>>

\* list(simulations).count(i)
Count(xs, i) == Cardinality({j \in DOMAIN xs : xs[j] = i})
\* set(simulations)
SetOf(xs) == {xs[j] : j \in DOMAIN xs}

\* histogram(simulations): the two dictionaries seat count -> occurrences.
\* Before the simulations cell has run the name simulations is unbound.
histogram_dem_geq ==
    /\ simulations # <<>>
    /\ hist_dict_dem' = [i \in {v \in SetOf(simulations) : v >= ControlSeats} |->
                            Count(simulations, i)]
    /\ hist_dict_rep' = [i \in {v \in SetOf(simulations) : v <= ControlSeats} |->
                            Count(simulations, i)]
    /\ last' = [NoCall EXCEPT !.op = "histogram", !.count = Len(simulations),
                              !.owner = last.owner]
    /\ UNCHANGED <<rng, p_d, src, simulations, demrate, elections, win, arg, dens, vlines>>
histogram ==
    /\ simulations # <<>>
    /\ hist_dict_dem' = [i \in {v \in SetOf(simulations) : v > ControlSeats} |->
                            Count(simulations, i)]
    /\ hist_dict_rep' = [i \in {v \in SetOf(simulations) : v <= ControlSeats} |->
                            Count(simulations, i)]
    /\ last' = [NoCall EXCEPT !.op = "histogram", !.count = Len(simulations),
                              !.owner = last.owner]
    /\ UNCHANGED <<rng, p_d, src, simulations, demrate, elections, win, arg, dens, vlines>>

(* --------------------------- elections cell -------------------------- *)
NoWin == [kind |-> "none", num |-> 0, den |-> 0]

\* elections = [1 if i > 0.5 else 0 for i in p_d]
Elections_geq(sample) ==
    [i \in 1 .. Len(sample) |-> IF 2 * sample[i] >= Den THEN 1 ELSE 0]
Elections(sample) ==
    [i \in 1 .. Len(sample) |-> IF 2 * sample[i] > Den THEN 1 ELSE 0]

RECURSIVE Sum(_)
Sum(xs) == IF xs = <<>> THEN 0 ELSE xs[1] + Sum(Tail(xs))

\* np.mean(xs): the sum over the length, as the fraction num/den; the mean
\* of an empty list is nan (numpy warns and returns it, it does not raise).
np_mean(xs) ==
    IF Len(xs) = 0 THEN [kind |-> "nan", num |-> 0, den |-> 0]
    ELSE [kind |-> "value", num |-> Sum(xs), den |-> Len(xs)]

\* elections = [...]; np.mean(elections)
ElectionsCell ==
    /\ elections' = Elections(p_d)
    /\ win' = np_mean(Elections(p_d))
    /\ last' = [NoCall EXCEPT !.op = "elections", !.count = Len(p_d)]
    /\ UNCHANGED <<rng, p_d, src, simulations, demrate, hist_dict_dem,
                   hist_dict_rep, arg, dens, vlines>>

(* ------------------------------ density ------------------------------- *)
NoDens == [kind |-> "none", num |-> 0, den |-> 1]

RECURSIVE Fact(_)
Fact(n) == IF n <= 1 THEN 1 ELSE n * Fact(n - 1)

RECURSIVE Pow(_, _)
Pow(x, n) == IF n <= 0 THEN 1 ELSE x * Pow(x, n - 1)

\* beta(a, b).pdf(x) for whole shapes, x in units of 1/Den, as the fraction
\* num/den:  x^(a-1) (1-x)^(b-1) / B(a, b),  1/B(a, b) = (a+b-1)!/((a-1)!(b-1)!).
\* scipy returns nan for a shape that is not positive and 0.0 for an x
\* outside the support [0, 1]; it raises in neither case.
beta_pdf(a, b, x) ==
    IF a <= 0 \/ b <= 0 THEN [kind |-> "nan", num |-> 0, den |-> 1]
    ELSE IF x < 0 \/ x > Den THEN [kind |-> "value", num |-> 0, den |-> 1]
    ELSE [kind |-> "value",
          num |-> Fact(a + b - 1) * Pow(x, a - 1) * Pow(Den - x, b - 1),
          den |-> Fact(a - 1) * Fact(b - 1) * Pow(Den, a + b - 2)]

\* beta(a, b).pdf(i), with arg = <<a, b, i>>
Density ==
    /\ Len(arg) = 3
    /\ dens' = beta_pdf(arg[1], arg[2], arg[3])
    /\ last' = [NoCall EXCEPT !.op = "density"]
    /\ UNCHANGED <<rng, p_d, src, simulations, demrate, hist_dict_dem,
                   hist_dict_rep, elections, win, arg, vlines>>

(* ------------------------- plot_beta_binomial ------------------------- *)
NoVlines == [kind |-> "none", prior |-> <<0, 1>>, mle |-> <<0, 1>>,
             post |-> <<0, 1>>]

\* x / y on Python integers: the fraction <<x, y>>, ZeroDivisionError for y = 0.
Divides(x, y) == y # 0

\* The three positions plot_beta_binomial hands to plt.vlines, in the order
\* Python evaluates them: the prior mean a / (a + b), the maximum likelihood
\* value n_successes / n_trials and the posterior mean
\* (a + n_successes) / (a + b + n_trials).  A zero divisor raises
\* ZeroDivisionError and nothing is drawn.  The curves (pdf and pmf values,
\* which scipy computes without raising) are left out.
vlines_positions(a, b, n_trials, n_successes) ==
    IF Divides(a, a + b) /\ Divides(n_successes, n_trials)
          /\ Divides(a + n_successes, a + b + n_trials)
    THEN [kind |-> "drawn", prior |-> <<a, a + b>>,
          mle |-> <<n_successes, n_trials>>,
          post |-> <<a + n_successes, a + b + n_trials>>]
    ELSE [kind |-> "ZeroDivisionError", prior |-> <<0, 1>>, mle |-> <<0, 1>>,
          post |-> <<0, 1>>]

\* plot_beta_binomial(a, b, n_trials, n_successes), with
\* arg = <<a, b, n_trials, n_successes>>
plot_beta_binomial ==
    /\ Len(arg) = 4
    /\ vlines' = IF vlines_positions(arg[1], arg[2], arg[3], arg[4]).kind = "drawn"
                  THEN vlines_positions(arg[1], arg[2], arg[3], arg[4])
                  ELSE vlines
    /\ last' = [NoCall EXCEPT !.op = "plot_beta_binomial",
                              !.prior = <<arg[1], arg[2]>>,
                              !.obs = <<arg[3], arg[4]>>,
                              !.exc = IF vlines_positions(arg[1], arg[2], arg[3], arg[4]).kind = "drawn"
                                      THEN "ok" ELSE "ZeroDivisionError"]
    /\ UNCHANGED <<rng, p_d, src, simulations, demrate, hist_dict_dem,
                   hist_dict_rep, elections, win, arg, dens>>

(* --------------------------- specification ---------------------------- *)

\* A fresh kernel: numpy seeds its generator from the operating system when
\* it is imported, and no cell has run.
Init ==
    /\ rng \in 0 .. RngMod - 1
    /\ p_d = <<>>
    /\ simulations = <<>>
    /\ demrate = <<>>
    /\ hist_dict_dem = <<>>
    /\ hist_dict_rep = <<>>
    /\ last = NoCall
    /\ src = NoSrc
    /\ elections = <<>>
    /\ win = NoWin
    /\ arg = <<>>
    /\ dens = NoDens
    /\ vlines = NoVlines

\* The walkthrough notebook's draw cells.
Next == PosteriorCell

Spec == Init /\ [][Next]_vars

\* The dashboard notebook's cells.
NextDashboard == SimulationsCell \/ histogram \/ map_results

SpecDashboard == Init /\ [][NextDashboard]_vars

\* Every sequence over S of length at most n.
SeqUpTo(S, n) == UNION {[1 .. m -> S] : m \in 0 .. n}

\* The elections cell on its own, over every sample of values of [0, 1].
InitElections ==
    /\ rng \in 0 .. RngMod - 1
    /\ p_d \in SeqUpTo(0 .. Den, MaxLen)
    /\ simulations = <<>>
    /\ demrate = <<>>
    /\ hist_dict_dem = <<>>
    /\ hist_dict_rep = <<>>
    /\ last = NoCall
    /\ src = NoSrc
    /\ elections = <<>>
    /\ win = NoWin
    /\ arg = <<>>
    /\ dens = NoDens
    /\ vlines = NoVlines

SpecElections == InitElections /\ [][ElectionsCell]_vars

\* The density on its own, over shapes and points in and around [0, 1].
InitDensity ==
    /\ rng \in 0 .. RngMod - 1
    /\ p_d = <<>>
    /\ simulations = <<>>
    /\ demrate = <<>>
    /\ hist_dict_dem = <<>>
    /\ hist_dict_rep = <<>>
    /\ last = NoCall
    /\ src = NoSrc
    /\ elections = <<>>
    /\ win = NoWin
    /\ arg \in (0 .. MaxShape) \X (0 .. MaxShape) \X (-1 .. Den + 1)
    /\ dens = NoDens
    /\ vlines = NoVlines

SpecDensity == InitDensity /\ [][Density]_vars

\* plot_beta_binomial on its own, over the priors and the observations.
InitPlot ==
    /\ rng \in 0 .. RngMod - 1
    /\ p_d = <<>>
    /\ simulations = <<>>
    /\ demrate = <<>>
    /\ hist_dict_dem = <<>>
    /\ hist_dict_rep = <<>>
    /\ last = NoCall
    /\ src = NoSrc
    /\ elections = <<>>
    /\ win = NoWin
    /\ arg \in {<<pr[1], pr[2], ob[1], ob[2]>> : pr \in Priors, ob \in Observations}
    /\ dens = NoDens
    /\ vlines = NoVlines

SpecPlot == InitPlot /\ [][plot_beta_binomial]_vars

\* histogram on its own, over every list of seat counts around the mean.
InitHistogram ==
    /\ rng \in 0 .. RngMod - 1
    /\ p_d = <<>>
    /\ simulations \in SeqUpTo(PoissonMean - Spread .. PoissonMean + Spread, MaxSims)
    /\ demrate = <<>>
    /\ hist_dict_dem = <<>>
    /\ hist_dict_rep = <<>>
    /\ last = NoCall
    /\ src = NoSrc
    /\ elections = <<>>
    /\ win = NoWin
    /\ arg = <<>>
    /\ dens = NoDens
    /\ vlines = NoVlines

SpecHistogram == InitHistogram /\ [][histogram]_vars

(* ------------------------------ claims -------------------------------- *)
\* The preconditions the claims speak of: positive shapes, and
\* 0 <= successes <= trials (so trials >= 0).
ValidPrior(prior) == prior[1] > 0 /\ prior[2] > 0
ValidObs(obs) == obs[1] >= 0 /\ 0 <= obs[2] /\ obs[2] <= obs[1]

\* C1: for a valid prior (alpha > 0, beta > 0) and a valid observation
\* (0 <= successes <= trials) the shapes the posterior draw cell passes on are
\* alpha + successes and beta + (trials - successes), both positive; the
\* prior Beta(7,5) with 30 successes in 40 trials gives Beta(37,15).
C1_UpdateConjugate ==
    /\ update(<<7, 5>>, <<40, 30>>) = <<37, 15>>
    /\ (last.op = "posterior" /\ ValidPrior(last.prior) /\ ValidObs(last.obs)) =>
          /\ last.post[1] = last.prior[1] + last.obs[2]
          /\ last.post[2] = last.prior[2] + (last.obs[1] - last.obs[2])
          /\ last.post[1] > 0
          /\ last.post[2] > 0

\* C1 witness: the notebook's first scenario has been drawn.
C1_Witness ==
    /\ last.op = "posterior" /\ last.exc = "ok"
    /\ last.prior = <<7, 5>> /\ last.obs = <<40, 30>>
    /\ last.post = <<37, 15>>
    /\ Len(p_d) > 0

\* C2 (as claimed): a posterior draw (valid prior, positive count) with an
\* observation that breaks 0 <= successes <= trials, or with negative trials,
\* fails: it does not end normally.
C2_InvalidObservationFails ==
    (last.op = "posterior" /\ ValidPrior(last.prior) /\ last.count > 0
        /\ ~ValidObs(last.obs)) => last.exc # "ok"

\* C3 (as claimed): a posterior draw (valid observation) from a prior with a
\* non-positive shape, or with a count that is not positive, fails: it does
\* not end normally.
C3_InvalidParameterFails ==
    (last.op = "posterior" /\ ValidObs(last.obs)
        /\ (~ValidPrior(last.prior) \/ last.count <= 0)) => last.exc # "ok"

\* C4: on a non-empty sample the elections cell reports the number of values
\* strictly greater than 0.5 over the length of the sample, and a value equal
\* to 0.5 is a loss.
C4_WinProbabilityStrict ==
    (last.op = "elections" /\ Len(p_d) > 0) =>
        /\ win.kind = "value"
        /\ win.num = Cardinality({i \in DOMAIN p_d : 2 * p_d[i] > Den})
        /\ win.den = Len(p_d)
        /\ \A i \in DOMAIN p_d : p_d[i] = Half => elections[i] = 0

\* C4 witness: a sample holding a value equal to 0.5, a win and the cell's
\* result for it.
C4_Witness ==
    /\ last.op = "elections"
    /\ \E i \in DOMAIN p_d : p_d[i] = Half
    /\ \E i \in DOMAIN p_d : 2 * p_d[i] > Den
    /\ win.kind = "value" /\ win.num > 0 /\ win.num < win.den

\* C5 (as claimed): the elections cell on an empty sample fails; it returns
\* nothing, and no nan.
C5_EmptySampleFails ==
    (last.op = "elections" /\ p_d = <<>>) =>
        (last.exc # "ok" /\ win.kind \notin {"nan", "value"})

\* C6: a posterior draw cell that runs again with the prior, observation and
\* count of the run p_d came from, under the same seed, leaves the same
\* sequence in p_d, whatever state the generator was in on entry.
C6_SeededSampleReproducible ==
    [][(last'.op = "posterior" /\ last'.exc = "ok" /\ src'.key = src.key)
          => p_d' = p_d]_vars

\* C6 witness: a non-empty sample was drawn again with the same inputs, the
\* generator having been left elsewhere than in its seeded state.
C6_Witness ==
    /\ last.op = "posterior" /\ last.exc = "ok"
    /\ src.rerun
    /\ Len(p_d) > 1

\* C7 (as claimed): every call that draws, draws from a generator state that
\* the same call seeded (or from the fresh kernel's own entropy); none draws
\* from a state that another call left behind.
C7_DrawsFromOwnGenerator ==
    last.genFrom \in {"none", "import", last.op}

\* C8 (as claimed): every simulated seat count is a whole number between 0
\* and the number of races, the 49 races that carry a win probability.
C8_SeatCountsWithinRaces ==
    \A j \in DOMAIN simulations :
        simulations[j] >= 0 /\ simulations[j] <= NumStates

\* C9: a posterior draw with positive shapes and a positive count ends
\* normally with exactly count values, each in [0, 1].
C9_SampleLengthAndRange ==
    (last.op = "posterior" /\ last.post[1] > 0 /\ last.post[2] > 0
        /\ last.count > 0) =>
        /\ last.exc = "ok"
        /\ Len(p_d) = last.count
        /\ \A i \in DOMAIN p_d : 0 <= p_d[i] /\ p_d[i] <= Den

\* C9 witness: two values were asked for, and two values are there, one of
\* them strictly inside the interval.
C9_Witness ==
    /\ last.op = "posterior" /\ last.exc = "ok"
    /\ last.count = 2 /\ Len(p_d) = 2
    /\ \E i \in DOMAIN p_d : 0 < p_d[i] /\ p_d[i] < Den

\* C10 (as claimed): the density of a Beta distribution with positive shapes
\* at a point outside [0, 1] fails; it returns no number.
C10_DensityOutsideDomainFails ==
    (last.op = "density" /\ arg[1] > 0 /\ arg[2] > 0
        /\ (arg[3] < 0 \/ arg[3] > Den)) =>
        (last.exc # "ok" /\ dens.kind # "value")

\* The values of the dictionary f over the keys S, added up.
RECURSIVE SumOver(_, _)
SumOver(f, S) ==
    IF S = {} THEN 0
    ELSE LET k == CHOOSE x \in S : TRUE IN f[k] + SumOver(f, S \ {k})

\* C11: after histogram every distinct simulated seat count is a key of
\* exactly one of the two dictionaries, of the Democratic one when it is
\* above 50 and of the Republican one when it is 50 or below (so 50 itself
\* is Republican); each value is the number of times its key occurs in
\* simulations, and all values together add up to the number of simulations.
C11_HistogramPartition ==
    last.op = "histogram" =>
        /\ (DOMAIN hist_dict_dem) \cup (DOMAIN hist_dict_rep) = SetOf(simulations)
        /\ (DOMAIN hist_dict_dem) \cap (DOMAIN hist_dict_rep) = {}
        /\ \A v \in DOMAIN hist_dict_dem : v > ControlSeats
        /\ \A v \in DOMAIN hist_dict_rep : v <= ControlSeats
        /\ ControlSeats \in SetOf(simulations) => ControlSeats \in DOMAIN hist_dict_rep
        /\ \A v \in DOMAIN hist_dict_dem :
              hist_dict_dem[v] = Cardinality({j \in DOMAIN simulations : simulations[j] = v})
        /\ \A v \in DOMAIN hist_dict_rep :
              hist_dict_rep[v] = Cardinality({j \in DOMAIN simulations : simulations[j] = v})
        /\ SumOver(hist_dict_dem, DOMAIN hist_dict_dem)
              + SumOver(hist_dict_rep, DOMAIN hist_dict_rep) = Len(simulations)

\* C11 witness: simulations with a seat count of exactly 50, a repeated seat
\* count and a seat count above 50 have been split.
C11_Witness ==
    /\ last.op = "histogram"
    /\ ControlSeats \in DOMAIN hist_dict_rep
    /\ DOMAIN hist_dict_dem # {}
    /\ \E v \in DOMAIN hist_dict_rep : hist_dict_rep[v] > 1

\* C12 (as claimed): a call that updates a valid prior with a valid
\* observation ends normally with the posterior Beta(alpha + successes,
\* beta + (trials - successes)), here seen through its mean
\* (alpha + successes) / (alpha + beta + trials); for the observation with
\* trials = 0 and successes = 0 that is the prior again.
C12_UpdateOfValidObservation ==
    (last.op = "plot_beta_binomial" /\ ValidPrior(last.prior)
        /\ ValidObs(last.obs)) =>
        /\ last.exc = "ok"
        /\ vlines.post = <<last.prior[1] + last.obs[2],
                           last.prior[1] + last.prior[2] + last.obs[1]>>
        /\ (last.obs = <<0, 0>> => vlines.post = vlines.prior)

\* The part of C12 that the draw cells' arithmetic does satisfy: two valid
\* observations applied one after the other give the sums, in either order;
\* the empty observation gives the prior back.
C12_DrawCellUpdatesCompose ==
    \A pr \in Priors, o1 \in Observations, o2 \in Observations :
        (ValidPrior(pr) /\ ValidObs(o1) /\ ValidObs(o2)) =>
            /\ update(update(pr, o1), o2)
                  = <<pr[1] + o1[2] + o2[2], pr[2] + (o1[1] - o1[2]) + (o2[1] - o2[2])>>
            /\ update(update(pr, o1), o2) = update(update(pr, o2), o1)
            /\ update(pr, <<0, 0>>) = pr

====
